---- MODULE Spec2Model ----
(***************************************************************************)
(* IP_Smart_LMS: a classroom attendance service (src/main.py, src/db.py).  *)
(*                                                                         *)
(* Two MongoDB collections (codes, attendance) behind five HTTP handlers.  *)
(* Every handler is an asyncio coroutine: the code between two awaits runs *)
(* without interruption, and each awaited database operation is one atomic *)
(* step of the model.  Other requests and the clock may move between the   *)
(* steps of one handler.                                                   *)
(*                                                                         *)
(* Time is counted in ticks of the wall clock (TicksPerMinute per minute). *)
(* Strings that the code inspects character by character (client IPs) are  *)
(* sequences of one-character strings.                                     *)
(***************************************************************************)
EXTENDS Integers, Sequences, FiniteSets, TLC

\* ------------------------------------------------------------------ bounds

\* Clock ticks explored by the bounded specifications.
MaxTime == 2
\* Largest minutes_valid a teacher submits in the bounded specifications.
MaxMinutes == 1
\* Codes created in the bounded specifications.
MaxCodes == 2
\* Attendance submissions handled in the bounded specifications.
MaxAttendance == 2
\* Characters appended to each stem of the client IPs given to classify_ip.
MaxSuffixLen == 1
\* The clock is finer than the minute that timedelta(minutes=...) adds and
\* that strftime("%m/%d %H:%M") keeps: a minute is this many ticks.
TicksPerMinute == 2

\* ------------------------------------------------- program constants

\* to_list(length=100) in get_active_sessions
SessionsCap == 100
\* to_list(length=20) in teacher_page (active codes)
ActiveCap == 20
\* to_list(length=30) in teacher_page (past codes)
PastCap == 30
\* to_list(length=500) in teacher_code_detail (both lists)
DetailCap == 500

\* ------------------------------------------------------------- strings

\* str.startswith
StartsWith(s, prefix) ==
    /\ Len(s) >= Len(prefix)
    /\ SubSeq(s, 1, Len(prefix)) = prefix

Chars127 == <<"1", "2", "7", ".">>
CharsLoopback6 == <<":", ":", "1">>
Chars10 == <<"1", "0", ".">>
Chars192168 == <<"1", "9", "2", ".", "1", "6", "8", ".">>

\* CAMPUS_PREFIXES = ["210.108.18."]
CAMPUS_PREFIXES == << <<"2", "1", "0", ".", "1", "0", "8", ".", "1", "8", ".">> >>

Chars10NoDot == <<"1", "0">>

\* A variant that tests the prefix "10" without its dot.
classify_ip_NoDot(ip) ==
    IF StartsWith(ip, Chars127) \/ ip = CharsLoopback6
    THEN "DEV"
    ELSE IF \E i \in DOMAIN CAMPUS_PREFIXES : StartsWith(ip, CAMPUS_PREFIXES[i])
    THEN "NORMAL"
    ELSE IF StartsWith(ip, Chars10NoDot) \/ StartsWith(ip, Chars192168)
    THEN "WARNING"
    ELSE "SUSPICIOUS"

\* classify_ip, the status half of the returned pair; the message is a fixed
\* text per status.
classify_ip(ip) ==
    IF StartsWith(ip, Chars127) \/ ip = CharsLoopback6
    THEN "DEV"
    ELSE IF \E i \in DOMAIN CAMPUS_PREFIXES : StartsWith(ip, CAMPUS_PREFIXES[i])
    THEN "NORMAL"
    ELSE IF StartsWith(ip, Chars10) \/ StartsWith(ip, Chars192168)
    THEN "WARNING"
    ELSE "SUSPICIOUS"

\* ------------------------------------------------------- input domains

\* Student names are free text; the k-th distinct name is written k.
StudentNames == 1..2
SessionDates == {"2024-03-01", "2024-03-08"}
\* generate_code draws six digits: "123456" stands for a code that is drawn,
\* "000000" for one a student may type but that was never drawn.
generate_code == {"123456"}
CodeValues == generate_code \cup {"000000"}
IpCampus == <<"2", "1", "0", ".", "1", "0", "8", ".", "1", "8", ".", "5", "0">>
IpExternal == <<"8", ".", "8", ".", "8", ".", "8">>
IpLocal == <<"1", "2", "7", ".", "0", ".", "0", ".", "1">>
ClientIps == {IpCampus, IpExternal}
Minutes == 0..MaxMinutes

\* ------------------------------------------------------------ the store

VARIABLES
    now,         \* the wall clock, datetime.now()
    codes,       \* code_collection, in insertion order; _id is the position
    attendance,  \* attendance_collection, in insertion order
    req,         \* the student_attend requests in flight, per connection
    recorded,    \* triples for which a response "Recorded" has been returned
    submitted,   \* number of student_attend requests started
    tp,          \* the GET /teacher request in flight
    td,          \* the GET /teacher/code/{code_id} request in flight
    sp,          \* the GET /student request in flight
    cl           \* a classify_ip call: its argument and its result

vars == <<now, codes, attendance, req, recorded, submitted, tp, td, sp, cl>>

Procs == {1, 2}

Min(a, b) == IF a <= b THEN a ELSE b

\* Every order of the documents G
RECURSIVE Orders(_)
Orders(G) ==
    IF G = {}
    THEN {<<>>}
    ELSE UNION {{<<d>> \o t : t \in Orders(G \ {d})} : d \in G}

\* cursor.sort(field, dir): every order of the documents S that is sorted by
\* field (dir = 1 ascending, -1 descending).  MongoDB leaves the order of
\* documents with equal keys open, so the result is a set of sequences.  The
\* documents are split at the middle of their range of keys, sorted on each
\* side and joined.
RECURSIVE Sort(_, _, _)
Sort(S, field, dir) ==
    IF S = {}
    THEN {<<>>}
    ELSE LET keys == {dir * d[field] : d \in S}
             down == {0 - k : k \in keys}
             lo == CHOOSE x \in keys : \A y \in keys : x <= y
             hi == 0 - (CHOOSE x \in down : \A y \in down : x <= y)
             mid == (lo + hi) \div 2
         IN IF lo = hi
            THEN Orders(S)
            ELSE {a \o b :
                    a \in Sort({d \in S : dir * d[field] <= mid}, field, dir),
                    b \in Sort({d \in S : dir * d[field] > mid}, field, dir)}

\* cursor.to_list(length=n)
to_list(s, n) == SubSeq(s, 1, Min(n, Len(s)))

Docs(coll) == {coll[i] : i \in DOMAIN coll}

\* datetime.strftime("%m/%d %H:%M"): the time cut to its minute
strftime(t) == t \div TicksPerMinute

\* timedelta(minutes=m)
timedelta(m) == m * TicksPerMinute

\* A variant with "$gte" in place of "$gt".
ActiveCodes_Gte(t) == {c \in Docs(codes) : c.valid_until >= t}

\* code_collection.find({"valid_until": {"$gt": t}})
ActiveCodes(t) == {c \in Docs(codes) : c.valid_until > t}

\* code_collection.find({"valid_until": {"$lte": t}})
PastCodes(t) == {c \in Docs(codes) : c.valid_until <= t}

\* A variant with "$gte" in place of "$gt".
MatchingActiveCodes_Gte(sd, code, t) ==
    {c \in Docs(codes) :
        /\ c.session_date = sd
        /\ c.attendance_code = code
        /\ c.valid_until >= t}

\* The filter of student_attend's code_collection.find_one
MatchingActiveCodes(sd, code, t) ==
    {c \in Docs(codes) :
        /\ c.session_date = sd
        /\ c.attendance_code = code
        /\ c.valid_until > t}

\* A variant that compares attendance_code with the submitted session_date.
ExistingAttendance_WrongField(name, sd, code) ==
    {a \in Docs(attendance) :
        /\ a.session_date = sd
        /\ a.attendance_code = sd
        /\ a.student_name = name}

\* The filter of student_attend's attendance_collection.find_one
ExistingAttendance(name, sd, code) ==
    {a \in Docs(attendance) :
        /\ a.session_date = sd
        /\ a.attendance_code = code
        /\ a.student_name = name}

\* The filter of teacher_code_detail's first attendance_collection.find
CodeAttendance(c) ==
    {a \in Docs(attendance) :
        /\ a.session_date = c.session_date
        /\ a.attendance_code = c.attendance_code}

\* The filter of teacher_code_detail's second attendance_collection.find
CodeSuspicious(c) ==
    {a \in Docs(attendance) :
        /\ a.session_date = c.session_date
        /\ a.attendance_code = c.attendance_code
        /\ a.ip_status /= "NORMAL"}

\* The loop of get_active_sessions over the fetched codes cs: a code whose
\* session_date is not in seen_dates, that is, of no code before it, makes an
\* entry.
Dedup(cs) ==
    LET positions == [i \in DOMAIN cs |-> i]
        NotSeen(i) == \A j \in 1..(i - 1) : cs[j].session_date /= cs[i].session_date
        kept == SelectSeq(positions, NotSeen)
    IN [k \in DOMAIN kept |->
           [session_date |-> cs[kept[k]].session_date,
            end_str |-> strftime(cs[kept[k]].valid_until)]]

\* get_active_sessions at time t: the possible results.
get_active_sessions(t) ==
    {Dedup(to_list(s, SessionsCap)) : s \in Sort(ActiveCodes(t), "valid_until", 1)}

NoCode ==
    [id |-> 0, session_date |-> "", attendance_code |-> "",
     created_at |-> 0, valid_until |-> 0]

IdleReq ==
    [pc |-> "idle", student_name |-> 0, session_date |-> "",
     attendance_code |-> "", client_ip |-> <<>>, ip_status |-> "",
     now |-> 0, result |-> "", after_recorded |-> FALSE]

IdleTeacherPage ==
    [pc |-> "idle", now |-> 0, active_codes |-> <<>>, past_codes |-> <<>>]

IdleDetail ==
    [pc |-> "idle", code |-> NoCode, now |-> 0, is_active |-> FALSE,
     attendance_list |-> <<>>, suspicious_list |-> <<>>]

IdleStudentPage == [pc |-> "idle", now |-> 0, sessions |-> <<>>]

IdleClassify == [ip |-> <<>>, status |-> ""]

Init ==
    /\ now = 0
    /\ codes = <<>>
    /\ attendance = <<>>
    /\ req = [p \in Procs |-> IdleReq]
    /\ recorded = {}
    /\ submitted = 0
    /\ tp = IdleTeacherPage
    /\ td = IdleDetail
    /\ sp = IdleStudentPage
    /\ cl = IdleClassify

\* The clock advances.
Tick ==
    /\ now' = now + 1
    /\ UNCHANGED <<codes, attendance, req, recorded, submitted, tp, td, sp, cl>>

\* A variant that renews the session's latest code instead of adding one.
create_code_Renew(session_date, minutes_valid, code) ==
    /\ LET same == {i \in DOMAIN codes : codes[i].session_date = session_date}
       IN codes' = IF same = {}
                   THEN Append(codes,
                               [id |-> Len(codes) + 1,
                                session_date |-> session_date,
                                attendance_code |-> code,
                                created_at |-> now,
                                valid_until |-> now + timedelta(minutes_valid)])
                   ELSE LET i == CHOOSE i \in same : \A j \in same : j <= i
                        IN [codes EXCEPT
                              ![i].attendance_code = code,
                              ![i].valid_until = now + timedelta(minutes_valid)]
    /\ UNCHANGED <<now, attendance, req, recorded, submitted, tp, td, sp, cl>>

\* POST /teacher/create-code
create_code(session_date, minutes_valid, code) ==
    /\ codes' = Append(codes,
                       [id |-> Len(codes) + 1,
                        session_date |-> session_date,
                        attendance_code |-> code,
                        created_at |-> now,
                        valid_until |-> now + timedelta(minutes_valid)])
    /\ UNCHANGED <<now, attendance, req, recorded, submitted, tp, td, sp, cl>>

\* POST /student/attend, up to the code lookup
student_attend_find_code(p, student_name, session_date, attendance_code, client_ip) ==
    /\ req[p].pc = "idle"
    /\ LET found == MatchingActiveCodes(session_date, attendance_code, now) /= {}
       IN req' = [req EXCEPT ![p] =
                    [pc |-> IF found THEN "existing" ELSE "sessions",
                     student_name |-> student_name,
                     session_date |-> session_date,
                     attendance_code |-> attendance_code,
                     client_ip |-> client_ip,
                     ip_status |-> classify_ip(client_ip),
                     now |-> now,
                     result |-> IF found THEN "" ELSE "CodeInvalidOrExpired",
                     after_recorded |->
                        <<student_name, session_date, attendance_code>> \in recorded]]
    /\ submitted' = submitted + 1
    /\ UNCHANGED <<now, codes, attendance, recorded, tp, td, sp, cl>>

\* POST /student/attend, the lookup of an existing record
student_attend_find_existing(p) ==
    /\ req[p].pc = "existing"
    /\ LET r == req[p]
           existing == ExistingAttendance(r.student_name, r.session_date,
                                          r.attendance_code) /= {}
       IN req' = [req EXCEPT ![p].pc = IF existing THEN "sessions" ELSE "insert",
                             ![p].result = IF existing THEN "AlreadyRecorded" ELSE ""]
    /\ UNCHANGED <<now, codes, attendance, recorded, submitted, tp, td, sp, cl>>

\* A variant that stamps the record with the clock at the insert, not with
\* the time taken when the request came in.
student_attend_insert_LateStamp(p) ==
    /\ req[p].pc = "insert"
    /\ LET r == req[p]
       IN attendance' = Append(attendance,
                               [id |-> Len(attendance) + 1,
                                student_name |-> r.student_name,
                                session_date |-> r.session_date,
                                attendance_code |-> r.attendance_code,
                                ip |-> r.client_ip,
                                ip_status |-> r.ip_status,
                                timestamp |-> now])
    /\ req' = [req EXCEPT ![p].pc = "sessions", ![p].result = "Recorded"]
    /\ UNCHANGED <<now, codes, recorded, submitted, tp, td, sp, cl>>

\* A variant that writes with replace_one(..., upsert=True): a record of the
\* same student, session and code is overwritten.
student_attend_insert_Upsert(p) ==
    /\ req[p].pc = "insert"
    /\ LET r == req[p]
           doc(i) == [id |-> i,
                      student_name |-> r.student_name,
                      session_date |-> r.session_date,
                      attendance_code |-> r.attendance_code,
                      ip |-> r.client_ip,
                      ip_status |-> r.ip_status,
                      timestamp |-> r.now]
           same == {i \in DOMAIN attendance :
                       /\ attendance[i].student_name = r.student_name
                       /\ attendance[i].session_date = r.session_date
                       /\ attendance[i].attendance_code = r.attendance_code}
       IN attendance' = IF same = {}
                        THEN Append(attendance, doc(Len(attendance) + 1))
                        ELSE LET i == CHOOSE i \in same : TRUE
                             IN [attendance EXCEPT ![i] = doc(i)]
    /\ req' = [req EXCEPT ![p].pc = "sessions", ![p].result = "Recorded"]
    /\ UNCHANGED <<now, codes, recorded, submitted, tp, td, sp, cl>>

\* POST /student/attend, the insert
student_attend_insert(p) ==
    /\ req[p].pc = "insert"
    /\ LET r == req[p]
       IN attendance' = Append(attendance,
                               [id |-> Len(attendance) + 1,
                                student_name |-> r.student_name,
                                session_date |-> r.session_date,
                                attendance_code |-> r.attendance_code,
                                ip |-> r.client_ip,
                                ip_status |-> r.ip_status,
                                timestamp |-> r.now])
    /\ req' = [req EXCEPT ![p].pc = "sessions", ![p].result = "Recorded"]
    /\ UNCHANGED <<now, codes, recorded, submitted, tp, td, sp, cl>>

\* POST /student/attend, the refreshed session list and the response
student_attend_respond(p) ==
    /\ req[p].pc = "sessions"
    /\ get_active_sessions(now) /= {}
    /\ recorded' = IF req[p].result = "Recorded"
                   THEN recorded \cup {<<req[p].student_name, req[p].session_date,
                                         req[p].attendance_code>>}
                   ELSE recorded
    /\ req' = [req EXCEPT ![p] = IdleReq]
    /\ UNCHANGED <<now, codes, attendance, submitted, tp, td, sp, cl>>

\* A call of classify_ip
classify ==
    /\ cl.status = ""
    /\ cl' = [cl EXCEPT !.status = classify_ip(cl.ip)]
    /\ UNCHANGED <<now, codes, attendance, req, recorded, submitted, tp, td, sp>>

\* GET /student
student_page_sessions ==
    /\ sp.pc = "idle"
    /\ \E s \in get_active_sessions(now) :
          sp' = [pc |-> "done", now |-> now, sessions |-> s]
    /\ UNCHANGED <<now, codes, attendance, req, recorded, submitted, tp, td, cl>>

student_page_return ==
    /\ sp.pc = "done"
    /\ sp' = IdleStudentPage
    /\ UNCHANGED <<now, codes, attendance, req, recorded, submitted, tp, td, cl>>

\* GET /teacher, the query of the active codes
teacher_page_active ==
    /\ tp.pc = "idle"
    /\ \E s \in Sort(ActiveCodes(now), "valid_until", 1) :
          tp' = [pc |-> "past", now |-> now,
                 active_codes |-> to_list(s, ActiveCap), past_codes |-> <<>>]
    /\ UNCHANGED <<now, codes, attendance, req, recorded, submitted, td, sp, cl>>

\* GET /teacher, the query of the past codes
teacher_page_past ==
    /\ tp.pc = "past"
    /\ \E s \in Sort(PastCodes(tp.now), "valid_until", -1) :
          tp' = [tp EXCEPT !.pc = "done", !.past_codes = to_list(s, PastCap)]
    /\ UNCHANGED <<now, codes, attendance, req, recorded, submitted, td, sp, cl>>

teacher_page_return ==
    /\ tp.pc = "done"
    /\ tp' = IdleTeacherPage
    /\ UNCHANGED <<now, codes, attendance, req, recorded, submitted, td, sp, cl>>

\* GET /teacher/code/{code_id}, the lookup of the code.  code_id 0 stands
\* for a string ObjectId() rejects; a positive code_id is well formed.
teacher_code_detail_find(code_id) ==
    /\ td.pc = "idle"
    /\ td' = IF code_id \in DOMAIN codes
             THEN [IdleDetail EXCEPT !.pc = "attendance", !.code = codes[code_id]]
             ELSE [IdleDetail EXCEPT !.pc = "notfound"]
    /\ UNCHANGED <<now, codes, attendance, req, recorded, submitted, tp, sp, cl>>

\* GET /teacher/code/{code_id}, is_active and the attendance list
teacher_code_detail_attendance ==
    /\ td.pc = "attendance"
    /\ \E s \in Sort(CodeAttendance(td.code), "timestamp", -1) :
          td' = [td EXCEPT !.pc = "suspicious",
                           !.now = now,
                           !.is_active = (td.code.valid_until > now),
                           !.attendance_list = to_list(s, DetailCap)]
    /\ UNCHANGED <<now, codes, attendance, req, recorded, submitted, tp, sp, cl>>

\* GET /teacher/code/{code_id}, the list of records to review
teacher_code_detail_suspicious ==
    /\ td.pc = "suspicious"
    /\ \E s \in Sort(CodeSuspicious(td.code), "timestamp", -1) :
          td' = [td EXCEPT !.pc = "done",
                           !.suspicious_list = to_list(s, DetailCap)]
    /\ UNCHANGED <<now, codes, attendance, req, recorded, submitted, tp, sp, cl>>

\* GET /teacher/code/{code_id}, the response (the page, or 404)
teacher_code_detail_return ==
    /\ td.pc \in {"done", "notfound"}
    /\ td' = IdleDetail
    /\ UNCHANGED <<now, codes, attendance, req, recorded, submitted, tp, sp, cl>>

\* ------------------------------------------- the attendance service

\* Requests take the lowest free connection.
StudentAttend ==
    \E p \in Procs :
        \/ /\ submitted < MaxAttendance
           /\ \A q \in Procs : q < p => req[q].pc /= "idle"
           /\ \E n \in StudentNames, sd \in SessionDates, c \in CodeValues,
                 ip \in ClientIps :
                 student_attend_find_code(p, n, sd, c, ip)
        \/ student_attend_find_existing(p)
        \/ student_attend_insert(p)
        \/ student_attend_respond(p)

CreateCode ==
    /\ Len(codes) < MaxCodes
    /\ \E sd \in SessionDates, m \in Minutes, c \in generate_code :
          create_code(sd, m, c)

ClockTick ==
    /\ now < MaxTime
    /\ Tick

Next == ClockTick \/ CreateCode \/ StudentAttend

Spec == Init /\ [][Next]_vars

\* ------------------------------------------------- student_attend claims

Triple(a) == <<a.student_name, a.session_date, a.attendance_code>>

\* The step of the model is a step of request p.
StepOf(p) == req'[p] /= req[p]

\* Request p starts in this step.
Starts(p) == req[p].pc = "idle" /\ req'[p].pc /= "idle"

\* C1: the attendance collection never holds two records of the same
\* (student_name, session_date, attendance_code).
C1_OneRecordPerTriple ==
    \A i, j \in DOMAIN attendance :
        i /= j => Triple(attendance[i]) /= Triple(attendance[j])

\* C2 as stated: a submission that starts after a "Recorded" response for
\* the same triple is answered AlreadyRecorded.
C2_LaterSubmissionAlreadyRecorded ==
    \A p \in Procs :
        req[p].after_recorded /\ req[p].result /= ""
            => req[p].result = "AlreadyRecorded"

\* C2 as amended: a submission that starts after a "Recorded" response for
\* the same triple is answered AlreadyRecorded when a code for its
\* (session_date, code) is still active at the lookup, CodeInvalidOrExpired
\* when none is; it is never answered Recorded and none of its steps changes
\* the attendance collection.
C2_LaterSubmissionNeverRecorded ==
    [][\A p \in Procs :
          /\ Starts(p) /\ req'[p].after_recorded =>
                /\ attendance' = attendance
                /\ IF \E c \in Docs(codes) :
                          /\ c.session_date = req'[p].session_date
                          /\ c.attendance_code = req'[p].attendance_code
                          /\ c.valid_until > now
                   THEN req'[p].pc = "existing" /\ req'[p].result = ""
                   ELSE req'[p].result = "CodeInvalidOrExpired"
          /\ req[p].after_recorded /\ req[p].pc = "existing" /\ StepOf(p) =>
                /\ attendance' = attendance
                /\ req'[p].result = "AlreadyRecorded"
          /\ req[p].after_recorded /\ StepOf(p) =>
                /\ attendance' = attendance
                /\ req'[p].result /= "Recorded"]_vars

C2_Witness ==
    \E p \in Procs :
        req[p].after_recorded /\ req[p].result = "AlreadyRecorded"

\* C3: a submission whose (session_date, code) matches no stored code with
\* valid_until later than the submission time is answered
\* CodeInvalidOrExpired, and no step of it adds an attendance record.
C3_InvalidOrExpired ==
    [][\A p \in Procs :
          /\ (/\ Starts(p)
              /\ \A c \in Docs(codes) :
                    (/\ c.session_date = req'[p].session_date
                     /\ c.attendance_code = req'[p].attendance_code)
                        => c.valid_until <= now)
                => /\ req'[p].result = "CodeInvalidOrExpired"
                   /\ attendance' = attendance
          /\ req[p].result = "CodeInvalidOrExpired" /\ StepOf(p) =>
                /\ attendance' = attendance
                /\ req'[p].pc = "idle"]_vars

C3_Witness ==
    \E p \in Procs :
        /\ req[p].result = "CodeInvalidOrExpired"
        /\ \E c \in Docs(codes) :
              /\ c.session_date = req[p].session_date
              /\ c.attendance_code = req[p].attendance_code
              /\ c.created_at < req[p].now
              /\ c.valid_until <= req[p].now

\* C4: a submission with an active code and no existing record is answered
\* Recorded and appends exactly one record; a step that answers
\* CodeInvalidOrExpired or AlreadyRecorded leaves the attendance collection
\* as it is; no step of a submission changes the codes collection.
C4_RecordedAddsOne ==
    [][\A p \in Procs :
          /\ (/\ Starts(p)
              /\ \E c \in Docs(codes) :
                    /\ c.session_date = req'[p].session_date
                    /\ c.attendance_code = req'[p].attendance_code
                    /\ c.valid_until > now)
                => req'[p].pc = "existing"
          /\ (/\ req[p].pc = "existing"
              /\ StepOf(p)
              /\ \A a \in Docs(attendance) : Triple(a) /= Triple(req[p]))
                => req'[p].pc = "insert"
          /\ req[p].pc = "insert" /\ StepOf(p) =>
                /\ req'[p].result = "Recorded"
                /\ Len(attendance') = Len(attendance) + 1
                /\ SubSeq(attendance', 1, Len(attendance)) = attendance
                /\ Triple(attendance'[Len(attendance')]) = Triple(req[p])
          /\ (/\ req[p].result = ""
              /\ req'[p].result \in {"CodeInvalidOrExpired", "AlreadyRecorded"})
                => attendance' = attendance
          /\ StepOf(p) => codes' = codes]_vars

C4_Witness ==
    \E p \in Procs :
        /\ req[p].result = "Recorded"
        /\ \E a \in Docs(attendance) :
              Triple(a) = Triple(req[p]) /\ a.timestamp = req[p].now

\* C5: every attendance record has a stored code of its session_date and
\* attendance_code that was active at the record's timestamp.
C5_RecordHadActiveCode ==
    \A r \in Docs(attendance) :
        \E c \in Docs(codes) :
            /\ c.session_date = r.session_date
            /\ c.attendance_code = r.attendance_code
            /\ c.valid_until > r.timestamp

C5_Witness ==
    \E r \in Docs(attendance) :
        /\ r.timestamp < now
        /\ \A c \in Docs(codes) : c.valid_until <= now

\* ------------------------------------------------------- classify_ip

IpAlphabet == {"0", "1", "."}

IpStems ==
    {<<>>,
     <<"1">>, <<"1", "0">>, <<"1", "0", ".">>,
     <<"1", "2", "7">>, <<"1", "2", "7", ".">>,
     <<":", ":">>, <<":", ":", "1">>,
     <<"1", "9", "2", ".", "1", "6", "8">>,
     <<"1", "9", "2", ".", "1", "6", "8", ".">>,
     <<"2", "1", "0", ".", "1", "0", "8", ".", "1", "8">>,
     <<"2", "1", "0", ".", "1", "0", "8", ".", "1", "8", ".">>,
     <<"8", ".", "8", ".", "8", ".">>,
     <<" ", "1", "2", "7", ".">>,
     <<"1", "2", "7", ".", "0", ".", "0", ".", "1">>,
     <<"2", "1", "0", ".", "1", "0", "8", ".", "1", "9", ".">>,
     <<"1", "9", "2", ".", "1", "6", "9", ".">>,
     <<"0", "1", "0", ".">>,
     <<"u", "n", "k", "n", "o", "w", "n">>}

\* The client IPs given to classify_ip: every stem, continued by up to
\* MaxSuffixLen characters.
TestIps ==
    {stem \o suffix :
        stem \in IpStems,
        suffix \in UNION {[1..k -> IpAlphabet] : k \in 0..MaxSuffixLen}}

InitClassify ==
    /\ now = 0
    /\ codes = <<>>
    /\ attendance = <<>>
    /\ req = [p \in Procs |-> IdleReq]
    /\ recorded = {}
    /\ submitted = 0
    /\ tp = IdleTeacherPage
    /\ td = IdleDetail
    /\ sp = IdleStudentPage
    /\ \E ip \in TestIps : cl = [ip |-> ip, status |-> ""]

NextClassify == classify

SpecClassify == InitClassify /\ [][NextClassify]_vars

\* s begins with the characters of prefix.
HasPrefix(s, prefix) ==
    /\ Len(prefix) <= Len(s)
    /\ \A i \in 1..Len(prefix) : s[i] = prefix[i]

\* C6: classify_ip answers every string, by the first rule that matches:
\* DEV for "127." or "::1", else NORMAL for a campus prefix, else WARNING for
\* "10." or "192.168.", else SUSPICIOUS; an IP with a campus prefix is NORMAL.
C6_FirstMatchWins ==
    cl.status /= "" =>
        LET ip == cl.ip
            dev == HasPrefix(ip, <<"1", "2", "7", ".">>) \/ ip = <<":", ":", "1">>
            campus ==
                HasPrefix(ip, <<"2", "1", "0", ".", "1", "0", "8", ".", "1", "8", ".">>)
            private ==
                \/ HasPrefix(ip, <<"1", "0", ".">>)
                \/ HasPrefix(ip, <<"1", "9", "2", ".", "1", "6", "8", ".">>)
        IN /\ cl.status \in {"DEV", "NORMAL", "WARNING", "SUSPICIOUS"}
           /\ cl.status = "DEV" <=> dev
           /\ cl.status = "NORMAL" <=> ~dev /\ campus
           /\ cl.status = "WARNING" <=> ~dev /\ ~campus /\ private
           /\ cl.status = "SUSPICIOUS" <=> ~dev /\ ~campus /\ ~private
           /\ campus => cl.status = "NORMAL"

C6_Witness ==
    /\ cl.status = "NORMAL"
    /\ Len(cl.ip) > Len(CAMPUS_PREFIXES[1])

\* ------------------------------------------------- the code lifecycle

\* No page request is in flight.  The pages only read the store, so one page
\* request at a time shows all that any of them can return.
PagesIdle == tp.pc = "idle" /\ td.pc = "idle" /\ sp.pc = "idle"

\* A teacher who creates code after code within one tick: the k-th code is
\* valid for k minutes, the first SessionsCap of them for one session_date
\* and the next for another.
BusySessionDate(k) == IF k <= SessionsCap THEN "2024-03-01" ELSE "2024-03-08"

BusyTeacher ==
    /\ now = 0
    /\ \A i \in DOMAIN codes :
          /\ codes[i].session_date = BusySessionDate(i)
          /\ codes[i].created_at = 0
          /\ codes[i].valid_until = timedelta(i)

\* The pages are requested while few codes are stored, and once more codes
\* than get_active_sessions fetches are.
PagesRequested == Len(codes) <= MaxCodes \/ Len(codes) > SessionsCap

CreateCodeBusy ==
    /\ BusyTeacher
    /\ PagesIdle
    /\ Len(codes) <= SessionsCap
    /\ \E c \in generate_code :
          create_code(BusySessionDate(Len(codes) + 1), Len(codes) + 1, c)

ClockTickCodes ==
    /\ now < MaxTime
    /\ Len(codes) <= MaxCodes
    /\ Tick

StudentPage ==
    \/ PagesIdle /\ PagesRequested /\ student_page_sessions
    \/ student_page_return

TeacherPage ==
    \/ PagesIdle /\ PagesRequested /\ teacher_page_active
    \/ teacher_page_past
    \/ teacher_page_return

TeacherCodeDetail ==
    \/ /\ PagesIdle
       /\ PagesRequested
       /\ \E code_id \in 0..(Len(codes) + 1) : teacher_code_detail_find(code_id)
    \/ teacher_code_detail_attendance
    \/ teacher_code_detail_suspicious
    \/ teacher_code_detail_return

NextCodes ==
    \/ ClockTickCodes
    \/ CreateCode
    \/ CreateCodeBusy
    \/ StudentPage
    \/ TeacherPage
    \/ TeacherCodeDetail

SpecCodes == Init /\ [][NextCodes]_vars

Elements(s) == {s[i] : i \in DOMAIN s}

\* s is sorted by field: dir = 1 ascending, dir = -1 descending
SortedBy(s, field, dir) ==
    \A i, j \in DOMAIN s : i < j => dir * s[i][field] <= dir * s[j][field]

\* C7: on the teacher page taken at time tp.now, the active list holds only
\* stored codes with valid_until > now in ascending order of valid_until, the
\* past list only stored codes with valid_until <= now in descending order,
\* and no code is in both.
C7_TeacherPageLists ==
    tp.pc \in {"past", "done"} =>
        /\ \A c \in Elements(tp.active_codes) :
              c \in Docs(codes) /\ c.valid_until > tp.now
        /\ SortedBy(tp.active_codes, "valid_until", 1)
        /\ \A c \in Elements(tp.past_codes) :
              c \in Docs(codes) /\ c.valid_until <= tp.now
        /\ SortedBy(tp.past_codes, "valid_until", -1)
        /\ Elements(tp.active_codes) \cap Elements(tp.past_codes) = {}

C7_Witness ==
    /\ tp.pc = "done"
    /\ Len(tp.active_codes) >= 1
    /\ Len(tp.past_codes) >= 1
    /\ \E c \in Elements(tp.past_codes) : c.created_at < c.valid_until

\* C9: create_code stores valid_until = created_at + minutes_valid and no
\* step changes or removes a stored code; the clock never goes back; so a code
\* with valid_until <= now stays so, the detail page that takes its time
\* then reports is_active false, and the teacher page that takes its time
\* then leaves the code out of the active list.
C9_ExpiryIsPermanent ==
    [][/\ now' >= now
       /\ \A i \in DOMAIN codes : i \in DOMAIN codes' /\ codes'[i] = codes[i]
       /\ \A i \in DOMAIN codes' \ DOMAIN codes :
             /\ codes'[i].created_at = now
             /\ (codes'[i].valid_until - codes'[i].created_at) % TicksPerMinute = 0
       /\ \A c \in Docs(codes) :
             c.valid_until <= now =>
                /\ c \in Docs(codes') /\ c.valid_until <= now'
                /\ td.pc = "attendance" /\ td'.pc = "suspicious" /\ td.code = c
                      => ~td'.is_active
                /\ tp.pc = "idle" /\ tp'.pc = "past"
                      => c \notin Elements(tp'.active_codes)]_vars

C9_Witness ==
    /\ td.pc = "done"
    /\ ~td.is_active
    /\ td.code.created_at < td.code.valid_until
    /\ td.code.valid_until <= td.now

\* The smallest valid_until among the codes S
MinValidUntil(S) ==
    LET vs == {c.valid_until : c \in S}
    IN CHOOSE v \in vs : \A w \in vs : v <= w

\* The session list ss has no session_date twice, and each entry is of a
\* session_date with a code in A and carries the minute of the smallest
\* valid_until among A's codes of that session_date.
SessionEntriesRight(ss, A) ==
    /\ \A i, j \in DOMAIN ss : i /= j => ss[i].session_date /= ss[j].session_date
    /\ \A e \in Elements(ss) :
          LET mine == {c \in A : c.session_date = e.session_date}
          IN mine /= {} /\ e.end_str = strftime(MinValidUntil(mine))

Shown(ss) == {e.session_date : e \in Elements(ss)}

\* C10: the list returned by get_active_sessions at time now shows each
\* session_date at most once, shows a session_date exactly if a stored code
\* of it has valid_until > now, and shows it with the smallest valid_until
\* among its active codes.
C10_SessionsExactlyActive ==
    [][sp.pc = "idle" /\ sp'.pc = "done" =>
          LET A == {c \in Docs(codes) : c.valid_until > now}
          IN /\ SessionEntriesRight(sp'.sessions, A)
             /\ Shown(sp'.sessions) = {c.session_date : c \in A}]_vars

\* What get_active_sessions returns whatever the number of active codes: each
\* session_date at most once, only session_dates with a stored code of
\* valid_until > now, each with the smallest valid_until among its active
\* codes; a session_date is shown when one of its active codes is among the
\* first SessionsCap active codes in ascending order of valid_until, so every
\* active session_date is shown while at most SessionsCap codes are active.
SessionsOfFirstHundred ==
    [][sp.pc = "idle" /\ sp'.pc = "done" =>
          LET A == {c \in Docs(codes) : c.valid_until > now}
          IN /\ SessionEntriesRight(sp'.sessions, A)
             /\ \A c \in A :
                   Cardinality({d \in A : d.valid_until <= c.valid_until})
                       <= SessionsCap
                       => c.session_date \in Shown(sp'.sessions)
             /\ Cardinality(A) <= SessionsCap
                   => Shown(sp'.sessions) = {c.session_date : c \in A}]_vars

\* The state SessionsOfFirstHundred is about: more active codes than fetched.
SessionsBeyondCap ==
    /\ sp.pc = "done"
    /\ Len(sp.sessions) = 1
    /\ Cardinality({c \in Docs(codes) : c.valid_until > sp.now}) > SessionsCap

\* ------------------------------------------------- the attendance review

\* A class larger than the detail page fetches: one code, valid for
\* ClassMinutes, and one student after the other, the k-th in tick k, from
\* the campus network and from the teacher's own machine in turn.
ClassMinutes == DetailCap

InClass == codes /= <<>> /\ codes[1].valid_until - codes[1].created_at = timedelta(ClassMinutes)

ClassIp(k) == IF k % 2 = 0 THEN IpCampus ELSE IpLocal

CreateCodeReview == ~InClass /\ CreateCode

CreateCodeClass ==
    /\ codes = <<>>
    /\ now = 0
    /\ submitted = 0
    /\ td.pc = "idle"
    /\ \E c \in generate_code : create_code("2024-03-01", ClassMinutes, c)

ClockTickReview == ~InClass /\ ClockTick

ClockTickClass ==
    /\ InClass
    /\ req[1].pc = "idle"
    /\ td.pc = "idle"
    /\ Len(attendance) = now
    /\ now <= DetailCap
    /\ Tick

StudentAttendReview ==
    \/ /\ ~InClass
       /\ submitted < MaxAttendance
       /\ \E n \in StudentNames, sd \in SessionDates, c \in generate_code,
             ip \in {IpCampus, IpLocal} :
             student_attend_find_code(1, n, sd, c, ip)
    \/ /\ InClass
       /\ Len(attendance) < now
       /\ student_attend_find_code(1, now, codes[1].session_date,
                                   codes[1].attendance_code, ClassIp(now))
    \/ student_attend_find_existing(1)
    \/ student_attend_insert(1)
    \/ student_attend_respond(1)

TeacherCodeDetailReview ==
    \/ /\ ~InClass
       /\ \E code_id \in 0..(Len(codes) + 1) : teacher_code_detail_find(code_id)
    \/ /\ InClass
       /\ Len(attendance) >= DetailCap
       /\ teacher_code_detail_find(1)
    \/ teacher_code_detail_attendance
    \/ teacher_code_detail_suspicious
    \/ teacher_code_detail_return

NextReview ==
    \/ ClockTickReview
    \/ ClockTickClass
    \/ CreateCodeReview
    \/ CreateCodeClass
    \/ StudentAttendReview
    \/ TeacherCodeDetailReview

SpecReview == Init /\ [][NextReview]_vars

\* The attendance records of code c's (session_date, attendance_code)
RecordsOf(c) ==
    {a \in Docs(attendance) :
        a.session_date = c.session_date /\ a.attendance_code = c.attendance_code}

NotNormal(S) == {a \in S : a.ip_status \in {"DEV", "WARNING", "SUSPICIOUS"}}

\* The list s holds the first Min(|S|, cap) of the documents S in descending
\* order of timestamp, each once.
LatestOf(s, S, cap) ==
    /\ Len(s) = Min(Cardinality(S), cap)
    /\ Cardinality(Elements(s)) = Len(s)
    /\ Elements(s) \subseteq S
    /\ SortedBy(s, "timestamp", -1)
    /\ \A a \in S \ Elements(s) : \A b \in Elements(s) : a.timestamp <= b.timestamp

\* C8: when the detail page is complete, with N records of the code's pair
\* stored and M of them not NORMAL, attendance_list has length N,
\* suspicious_list has length M, both are descending by timestamp, and
\* suspicious_list holds exactly the members of attendance_list that are not
\* NORMAL.
C8_ListsOfAllRecords ==
    [][td.pc = "suspicious" /\ td'.pc = "done" =>
          /\ Len(td'.attendance_list) = Cardinality(RecordsOf(td.code))
          /\ Len(td'.suspicious_list) = Cardinality(NotNormal(RecordsOf(td.code)))
          /\ SortedBy(td'.attendance_list, "timestamp", -1)
          /\ SortedBy(td'.suspicious_list, "timestamp", -1)
          /\ Elements(td'.suspicious_list) = NotNormal(Elements(td'.attendance_list))]_vars

\* What the detail page returns whatever the number of records and the
\* requests in flight: attendance_list holds the latest min(N, DetailCap) of
\* the N records of the code's pair stored when the first query runs, and
\* suspicious_list the latest min(M, DetailCap) of the M records of the pair
\* that are not NORMAL stored when the second query runs, each descending by
\* timestamp.  When the first query fetched every record of the pair and none
\* was inserted before the second, suspicious_list holds exactly the members
\* of attendance_list that are not NORMAL.
ListsOfLatestRecords ==
    [][/\ td.pc = "attendance" /\ td'.pc = "suspicious" =>
             LatestOf(td'.attendance_list, RecordsOf(td.code), DetailCap)
       /\ td.pc = "suspicious" /\ td'.pc = "done" =>
             /\ td'.attendance_list = td.attendance_list
             /\ LatestOf(td'.suspicious_list, NotNormal(RecordsOf(td.code)), DetailCap)
             /\ Elements(td.attendance_list) = RecordsOf(td.code) =>
                   Elements(td'.suspicious_list)
                       = NotNormal(Elements(td'.attendance_list))]_vars

\* The state ListsOfLatestRecords is about: more records than fetched.
ListsBeyondCap ==
    /\ td.pc = "done"
    /\ Len(td.attendance_list) = DetailCap
    /\ Cardinality(RecordsOf(td.code)) > DetailCap
    /\ Len(td.suspicious_list) * 2 > DetailCap
    /\ Len(td.suspicious_list) < DetailCap

====
